---------------------------- MODULE Spec2Model ----------------------------
(***************************************************************************)
(* State-machine model of drone_hardware/drone_handler.py (DroneHandler).  *)
(*                                                                         *)
(* The node is spun by rclpy.spin(drone) (main, lines 222-231): one        *)
(* executor thread runs the callbacks of the node one at a time, so an     *)
(* execute callback that blocks in time.sleep keeps the executor until it  *)
(* returns.  The vehicle pose is written by the vehicle link's own thread  *)
(* and may change between any two statements of a callback; every          *)
(* evaluation of self.vehicle.location.local_frame is a fresh read.        *)
(*                                                                         *)
(* Lengths are integers in units of 1/UnitsPerMeter m.  A distance is kept *)
(* as its square (math.sqrt is monotone): sqrt(d2)/UnitsPerMeter > 0.5 is  *)
(* 4*d2 > UnitsPerMeter^2.                                                 *)
(***************************************************************************)
EXTENDS Integers, Sequences, FiniteSets, TLC

\* ------------------------------------------------------------ bounds
MaxNorth == 1
MaxGoals == 2
MaxCount == 2

\* ------------------------------------------------- program constants
\* 0.5 (line 176) is one half: two length units per metre.
UnitsPerMeter == 2
\* down=-1 (line 85), the default/sentinel of goto_position_target_local_ned
DefaultDown == -1
\* 0b0000111111111000 (line 92)
TypeMask == 4088

VARIABLES state, pose, pending, nGoals, cur, node, nSent, veh, sq, qry, fn

vars ==
    <<state, pose, pending, nGoals, cur, node, nSent, veh, sq, qry, fn>>

\* ------------------------------------------------------------ domains
\* the vehicle moves along north and down; east is held at 0 (two varying
\* components are enough for reads that see different poses)
NorthVals == 0..MaxNorth
EastVals == {0}
DownVals == (DefaultDown * UnitsPerMeter)..0
Poses == [north : NorthVals, east : EastVals, down : DownVals]
\* the offsets clients request (x, y, z: north, east, down or lat, lon, alt)
Offsets == [x : {0, 1}, y : {0}, z : {-1, 0}]
Kinds == {"rel", "glob"}

\* self.vehicle.location.global_relative_frame of a vehicle at local pose p
\* (home at the local origin: altitude is minus down).
GlobalFrame(p) == [lat |-> p.north, lon |-> p.east, alt |-> 0 - p.down]

\* ------------------------------------------------------ pure functions
Sq(x) == x * x

\* math.sqrt(dnorth*dnorth + deast*deast + ddown*ddown), squared
Norm2(dnorth, deast, ddown) == Sq(dnorth) + Sq(deast) + Sq(ddown)

\* feedback_msg.distance > 0.5, on the squared distance
Far(d2) == 4 * d2 > Sq(UnitsPerMeter)

\* the message goto_position_target_local_ned encodes and sends; vdown is
\* self.vehicle.location.local_frame.down at the time of the call
LocalNedMsg(north, east, down, vdown) ==
    [frame |-> "LOCAL_NED", mask |-> TypeMask, x |-> north, y |-> east,
     z |-> IF down = DefaultDown * UnitsPerMeter THEN vdown ELSE down]

NoMsg == [frame |-> "none", mask |-> 0, x |-> 0, y |-> 0, z |-> 0]

Bump(n) == IF n < MaxCount THEN n + 1 ELSE n

\* the execute callback's frame before any goal has run; seen is the poses
\* read while the destination is computed, cmd is the message
\* the callback has handed to self.vehicle.send_mavlink, nSent counts the
\* messages the link has been handed by all callbacks
NoGoal ==
    [kind |-> "none", pc |-> "idle", req |-> [x |-> 0, y |-> 0, z |-> 0],
     seen |-> <<>>,
     north |-> 0, east |-> 0, down |-> 0,
     lat |-> 0, lon |-> 0, alt |-> 0,
     dnorth |-> 0, deast |-> 0, ret |-> "none",
     dist |-> 0, hasDist |-> FALSE, cmd |-> NoMsg,
     status |-> "none", result |-> 0,
     nCmd |-> 0, nSamples |-> 0, nNear |-> 0, nFeedback |-> 0,
     nSucceed |-> 0, nReturn |-> 0, nSleep |-> 0,
     busyAtCmd |-> FALSE, distAtCmd |-> FALSE, sleptAfterNear |-> FALSE,
     firstNear |-> FALSE]

\* the executor's one thread runs no execute callback and has no service
\* response left to send
Idle == cur.pc \in {"idle", "done", "failed"} /\ qry.resp.kind = "none"

\* the callback is left (return or exception): its locals are gone, the goal
\* handle's status and what the client and the link were handed remain
Leave(f, to) ==
    [NoGoal EXCEPT !.kind = f.kind, !.pc = to, !.status = f.status,
                   !.result = f.result, !.nCmd = f.nCmd,
                   !.nSamples = f.nSamples, !.nNear = f.nNear,
                   !.nFeedback = f.nFeedback, !.nSucceed = f.nSucceed,
                   !.nReturn = f.nReturn, !.nSleep = f.nSleep,
                   !.busyAtCmd = f.busyAtCmd, !.distAtCmd = f.distAtCmd,
                   !.sleptAfterNear = f.sleptAfterNear,
                   !.firstNear = f.firstNear]

\* the vehicle besides its position, as the link reports it: the flight
\* mode, is_armable, the armed read-back, the attitude (yaw only), and what
\* it has been commanded (the armed bit, the simple_takeoff commands)
NoVeh ==
    [mode |-> "STABILIZE", armable |-> FALSE, armed |-> FALSE, yaw |-> 0,
     armCmds |-> 0, climbs |-> 0]

\* the frame of a caller of the helper methods arm and takeoff
NoSeq ==
    [op |-> "none", pc |-> "idle", calls |-> 0, target |-> 0,
     phases |-> <<"UNARMED">>, nArmCmd |-> 0,
     nArmableReads |-> 0, nArmableFalse |-> 0,
     nArmedReads |-> 0, nArmedFalse |-> 0, sawArmable |-> FALSE,
     modeAtPoll |-> "none",
     nClimb |-> 0, readsAtClimb |-> 0, nAltReads |-> 0, nAltSamples |-> 0,
     nReached |-> 0, lastAlt |-> 0, returned |-> FALSE]

\* the two query services: the request that waits for the executor and the
\* response a service callback has returned, which the executor sends to
\* the client before it takes other work
NoResp == [kind |-> "none", a |-> 0, b |-> 0, c |-> 0]

NoQry == [wait |-> "none", resp |-> NoResp]

\* LocationGlobalRelative(lat, lon, alt): the attributes lat, lon and alt
LocationGlobalRelative(lat, lon, alt) ==
    [lat |-> lat, lon |-> lon, alt |-> alt]

\* LocationLocal(north, east, down)
LocationLocal(north, east, down) ==
    [north |-> north, east |-> east, down |-> down]

\* the frame of a caller that applies one of the helper functions to inputs
\* of its choice: the inputs, the locals and what it got back
NoFn ==
    [op |-> "none", pc |-> "idle",
     a |-> LocationLocal(0, 0, 0), b |-> LocationLocal(0, 0, 0),
     ab |-> 0, ba |-> 0, aa |-> 0,
     loc |-> LocationGlobalRelative(0, 0, 0),
     dlat |-> 0, dlon |-> 0, out |-> 0, msg |-> NoMsg]

\* ------------------------------------------------------------- Init
Init ==
    /\ state = "OK"
    /\ pose \in Poses
    /\ pending = <<>>
    /\ nGoals = 0
    /\ cur = NoGoal
    /\ node = "spinning"
    /\ nSent = 0
    /\ veh = NoVeh
    /\ sq = NoSeq
    /\ qry = NoQry
    /\ fn = NoFn

\* --------------------------------------------------------- environment
\* the vehicle moves: the link thread stores a new local position
MoveVehicle ==
    /\ \E p \in Poses : p # pose /\ pose' = p
    /\ UNCHANGED <<state, pending, nGoals, cur, node, nSent, veh, sq, qry, fn>>

\* a client sends a goal request to one of the two action servers; pending
\* holds the goals in arrival order, by action
SendGoal ==
    /\ nGoals < MaxGoals
    /\ \E k \in Kinds : pending' = Append(pending, k)
    /\ nGoals' = nGoals + 1
    /\ UNCHANGED <<state, pose, cur, node, nSent, veh, sq, qry, fn>>

\* StartGoal as it would be if the flag were checked before starting
StartGoalIfReady ==
    /\ node = "spinning"
    /\ Idle
    /\ state = "OK"
    /\ pending # <<>>
    /\ \E o \in Offsets :
          cur' = [NoGoal EXCEPT !.kind = Head(pending),
                                !.req = o,
                                !.status = "executing",
                                !.pc = IF Head(pending) = "rel"
                                       THEN "r159" ELSE "g191"]
    /\ pending' = Tail(pending)
    /\ UNCHANGED <<state, pose, nGoals, node, nSent, veh, sq, qry, fn>>

\* the executor thread, free, takes the next goal and enters its execute
\* callback with goal_handle.request = o
StartGoal ==
    /\ node = "spinning"
    /\ Idle
    /\ pending # <<>>
    /\ \E o \in Offsets :
          cur' = [NoGoal EXCEPT !.kind = Head(pending),
                                !.req = o,
                                !.status = "executing",
                                !.pc = IF Head(pending) = "rel"
                                       THEN "r159" ELSE "g191"]
    /\ pending' = Tail(pending)
    /\ UNCHANGED <<state, pose, nGoals, node, nSent, veh, sq, qry, fn>>

\* ------------------------------------------ goto_relative_action
\* line 159: north = local_frame.north + request.north (first pose read)
Rel159 ==
    /\ node = "spinning" /\ cur.pc = "r159"
    /\ cur' = [cur EXCEPT !.north = pose.north + cur.req.x,
                          !.seen = <<pose>>, !.pc = "r160"]
    /\ UNCHANGED <<state, pose, pending, nGoals, node, nSent, veh, sq, qry, fn>>

\* line 160: east = local_frame.east + request.east (second pose read)
Rel160 ==
    /\ node = "spinning" /\ cur.pc = "r160"
    /\ cur' = [cur EXCEPT !.east = pose.east + cur.req.y,
                          !.seen = Append(cur.seen, pose), !.pc = "r161"]
    /\ UNCHANGED <<state, pose, pending, nGoals, node, nSent, veh, sq, qry, fn>>

\* lines 161-166: down = local_frame.down + request.down (third pose
\* read); destination = LocationLocal(north, east, down)
Rel161 ==
    /\ node = "spinning" /\ cur.pc = "r161"
    /\ cur' = [cur EXCEPT !.down = pose.down + cur.req.z,
                          !.seen = Append(cur.seen, pose), !.pc = "r168"]
    /\ UNCHANGED <<state, pose, pending, nGoals, node, nSent, veh, sq, qry, fn>>

\* Rel168 without the assignment
Rel168Skip ==
    /\ node = "spinning" /\ cur.pc = "r168"
    /\ cur' = [cur EXCEPT !.pc = "r170", !.seen = <<>>]
    /\ UNCHANGED <<state, pose, pending, nGoals, node, nSent, veh, sq, qry, fn>>

\* line 168: self.state = "BUSY" (seen, the record of the poses read at
\* lines 159-161, is kept up to here)
Rel168 ==
    /\ node = "spinning" /\ cur.pc = "r168"
    /\ state' = "BUSY"
    /\ cur' = [cur EXCEPT !.pc = "r170", !.seen = <<>>]
    /\ UNCHANGED <<pose, pending, nGoals, node, nSent, veh, sq, qry, fn>>

\* line 170: self.goto_position_target_local_ned(destination...), the
\* whole of lines 85-98
Rel170 ==
    /\ node = "spinning" /\ cur.pc = "r170"
    /\ nSent' = nSent + 1
    /\ cur' = [cur EXCEPT !.cmd = LocalNedMsg(cur.north, cur.east,
                                              cur.down, pose.down),
                          !.nCmd = Bump(cur.nCmd),
                          !.busyAtCmd = (state = "BUSY"),
                          !.distAtCmd = cur.hasDist,
                          !.pc = "r173"]
    /\ UNCHANGED <<state, pose, pending, nGoals, node, veh, sq, qry, fn>>

\* calculate_remaining_distance_rel, called at line 173 and at line 177
\* line 120: dnorth = location.north - local_frame.north
Dist120 ==
    /\ node = "spinning" /\ cur.pc \in {"r173", "r177"}
    /\ cur' = [cur EXCEPT !.dnorth = cur.north - pose.north,
                          !.ret = IF cur.pc = "r173" THEN "r176" ELSE "r179",
                          !.pc = "c121"]
    /\ UNCHANGED <<state, pose, pending, nGoals, node, nSent, veh, sq, qry, fn>>

\* line 121: deast = location.east - local_frame.east
Dist121 ==
    /\ node = "spinning" /\ cur.pc = "c121"
    /\ cur' = [cur EXCEPT !.deast = cur.east - pose.east, !.pc = "c122"]
    /\ UNCHANGED <<state, pose, pending, nGoals, node, nSent, veh, sq, qry, fn>>

\* lines 122-123: ddown = location.down - local_frame.down; the norm is
\* returned (the callee's locals are gone) and stored in
\* feedback_msg.distance (and logged, 174/178).
\* feedback_msg is never handed to goal_handle.publish_feedback:
\* nFeedback, the number of progress messages the client receives,
\* is changed by no statement of the action.
Dist122 ==
    /\ node = "spinning" /\ cur.pc = "c122"
    /\ LET d2 == Norm2(cur.dnorth, cur.deast, cur.down - pose.down)
       IN  cur' = [cur EXCEPT !.dist = d2, !.hasDist = TRUE,
                              !.dnorth = 0, !.deast = 0,
                              !.nSamples = Bump(cur.nSamples),
                              !.nNear = IF Far(d2) THEN cur.nNear
                                        ELSE Bump(cur.nNear),
                              !.firstNear = IF cur.nSamples = 0 THEN ~Far(d2)
                                            ELSE cur.firstNear,
                              !.pc = cur.ret]
    /\ UNCHANGED <<state, pose, pending, nGoals, node, nSent, veh, sq, qry, fn>>

\* Rel176 with the test distance >= 0.5
Rel176Strict ==
    /\ node = "spinning" /\ cur.pc = "r176"
    /\ cur' = [cur EXCEPT !.pc = IF 4 * cur.dist >= Sq(UnitsPerMeter)
                                 THEN "r177" ELSE "r181"]
    /\ UNCHANGED <<state, pose, pending, nGoals, node, nSent, veh, sq, qry, fn>>

\* Rel176 with an iteration bound: the loop is left after MaxCount samples
Rel176Timeout ==
    /\ node = "spinning" /\ cur.pc = "r176"
    /\ cur' = [cur EXCEPT !.pc = IF Far(cur.dist) /\ cur.nSamples < MaxCount
                                 THEN "r177" ELSE "r181"]
    /\ UNCHANGED <<state, pose, pending, nGoals, node, nSent, veh, sq, qry, fn>>

\* Rel176 as a loop that tests after its body: one pass at least
Rel176DoWhile ==
    /\ node = "spinning" /\ cur.pc = "r176"
    /\ cur' = [cur EXCEPT !.pc = IF Far(cur.dist) \/ cur.nSleep = 0
                                 THEN "r177" ELSE "r181"]
    /\ UNCHANGED <<state, pose, pending, nGoals, node, nSent, veh, sq, qry, fn>>

\* line 176: while feedback_msg.distance > 0.5
Rel176 ==
    /\ node = "spinning" /\ cur.pc = "r176"
    /\ cur' = [cur EXCEPT !.pc = IF Far(cur.dist) THEN "r177" ELSE "r181"]
    /\ UNCHANGED <<state, pose, pending, nGoals, node, nSent, veh, sq, qry, fn>>

\* Rel179 re-sending the guidance command on every tick
Rel179Resend ==
    /\ node = "spinning" /\ cur.pc = "r179"
    /\ nSent' = nSent
    /\ cur' = [cur EXCEPT !.nSleep = Bump(cur.nSleep),
                          !.sleptAfterNear = ~Far(cur.dist),
                          !.nCmd = Bump(cur.nCmd),
                          !.pc = "r176"]
    /\ UNCHANGED <<state, pose, pending, nGoals, node, veh, sq, qry, fn>>

\* line 179: time.sleep(1), after the sample of line 177
Rel179 ==
    /\ node = "spinning" /\ cur.pc = "r179"
    /\ cur' = [cur EXCEPT !.nSleep = Bump(cur.nSleep),
                          !.sleptAfterNear = ~Far(cur.dist),
                          !.pc = "r176"]
    /\ UNCHANGED <<state, pose, pending, nGoals, node, nSent, veh, sq, qry, fn>>

\* line 181: goal_handle.succeed()
Rel181 ==
    /\ node = "spinning" /\ cur.pc = "r181"
    /\ cur' = [cur EXCEPT !.status = "succeeded",
                          !.nSucceed = Bump(cur.nSucceed),
                          !.pc = "r182"]
    /\ UNCHANGED <<state, pose, pending, nGoals, node, nSent, veh, sq, qry, fn>>

\* Rel182 without the assignment
Rel182Keep ==
    /\ node = "spinning" /\ cur.pc = "r182"
    /\ cur' = [cur EXCEPT !.pc = "r183"]
    /\ UNCHANGED <<state, pose, pending, nGoals, node, nSent, veh, sq, qry, fn>>

\* line 182: self.state = "OK"
Rel182 ==
    /\ node = "spinning" /\ cur.pc = "r182"
    /\ state' = "OK"
    /\ cur' = [cur EXCEPT !.pc = "r183"]
    /\ UNCHANGED <<pose, pending, nGoals, node, nSent, veh, sq, qry, fn>>

\* lines 183-186: result = GotoRelative.Result(); result.result = 1;
\* return result
Rel183 ==
    /\ node = "spinning" /\ cur.pc = "r183"
    /\ cur' = Leave([cur EXCEPT !.result = 1,
                                !.nReturn = Bump(cur.nReturn)], "done")
    /\ UNCHANGED <<state, pose, pending, nGoals, node, nSent, veh, sq, qry, fn>>

\* -------------------------------------------- goto_global_action
\* line 191: lat = global_relative_frame.lat + request.lat
Glob191 ==
    /\ node = "spinning" /\ cur.pc = "g191"
    /\ cur' = [cur EXCEPT !.lat = GlobalFrame(pose).lat + cur.req.x,
                          !.pc = "g192"]
    /\ UNCHANGED <<state, pose, pending, nGoals, node, nSent, veh, sq, qry, fn>>

\* line 192: lon = global_relative_frame.lon + request.lon
Glob192 ==
    /\ node = "spinning" /\ cur.pc = "g192"
    /\ cur' = [cur EXCEPT !.lon = GlobalFrame(pose).lon + cur.req.y,
                          !.pc = "g193"]
    /\ UNCHANGED <<state, pose, pending, nGoals, node, nSent, veh, sq, qry, fn>>

\* lines 193-198: alt = global_relative_frame.alt + request.alt;
\* destination = LocationGlobalRelative(lat, lon, alt)
Glob193 ==
    /\ node = "spinning" /\ cur.pc = "g193"
    /\ cur' = [cur EXCEPT !.alt = GlobalFrame(pose).alt + cur.req.z,
                          !.pc = "g200"]
    /\ UNCHANGED <<state, pose, pending, nGoals, node, nSent, veh, sq, qry, fn>>

\* line 200: self.state = "BUSY"
Glob200 ==
    /\ node = "spinning" /\ cur.pc = "g200"
    /\ state' = "BUSY"
    /\ cur' = [cur EXCEPT !.pc = "g202"]
    /\ UNCHANGED <<pose, pending, nGoals, node, nSent, veh, sq, qry, fn>>

\* line 202: the arguments destination.north and destination.east are
\* evaluated on a LocationGlobalRelative, which has the attributes lat,
\* lon and alt only: AttributeError before the send is called.  The
\* exception leaves the callback; the action server either logs it and
\* aborts the goal, or lets it end rclpy.spin, depending on its version.
\* Lines 204-218 are not reached.
Glob202 ==
    /\ node = "spinning" /\ cur.pc = "g202"
    /\ \/ /\ cur' = Leave([cur EXCEPT !.status = "aborted"], "failed")
          /\ node' = node
       \/ /\ cur' = Leave(cur, "failed")
          /\ node' = "crashed"
    /\ UNCHANGED <<state, pose, pending, nGoals, nSent, veh, sq, qry, fn>>

GotoRelative ==
    \/ Rel159 \/ Rel160 \/ Rel161 \/ Rel168 \/ Rel170
    \/ Dist120 \/ Dist121 \/ Dist122
    \/ Rel176 \/ Rel179 \/ Rel181 \/ Rel182 \/ Rel183

GotoGlobal == Glob191 \/ Glob192 \/ Glob193 \/ Glob200 \/ Glob202

Next == MoveVehicle \/ SendGoal \/ StartGoal \/ GotoRelative \/ GotoGlobal

Spec == Init /\ [][Next]_vars

\* one relative goal has been sent and waits for the executor; no other
\* goal arrives (the single-action scenario)
LiveInit ==
    /\ state = "OK"
    /\ pose \in Poses
    /\ pending = <<"rel">>
    /\ nGoals = 1
    /\ cur = NoGoal
    /\ node = "spinning"
    /\ nSent = 0
    /\ veh = NoVeh
    /\ sq = NoSeq
    /\ qry = NoQry
    /\ fn = NoFn

LiveNext == MoveVehicle \/ StartGoal \/ GotoRelative

\* the executor thread keeps running the callback it is in
LiveSpec == LiveInit /\ [][LiveNext]_vars /\ WF_vars(StartGoal \/ GotoRelative)

\* ------------------------------------------------------------- arm
\* the target altitudes passed to takeoff, in 1/100 length unit
TargetVals == {103, 104, 200}

\* alt >= altitude * 0.97 (line 79), alt in length units
Reached(alt, target) == 100 * 100 * alt >= 97 * target

Last(q) == q[Len(q)]

\* a caller invokes arm() (line 54)
CallArm ==
    /\ sq.pc = "idle" /\ sq.calls < MaxGoals
    /\ sq' = [NoSeq EXCEPT !.op = "arm", !.calls = sq.calls + 1,
                            !.pc = "a55"]
    /\ UNCHANGED <<state, pose, pending, nGoals, cur, node, nSent,
                   veh, qry, fn>>

\* line 55: self.state = "BUSY"
Arm55 ==
    /\ sq.pc = "a55"
    /\ state' = "BUSY"
    /\ sq' = [sq EXCEPT !.pc = "a56"]
    /\ UNCHANGED <<pose, pending, nGoals, cur, node, nSent, veh, qry, fn>>

\* line 56: self.vehicle.mode = VehicleMode("GUIDED"), not read back
Arm56 ==
    /\ sq.pc = "a56"
    /\ veh' = [veh EXCEPT !.mode = "GUIDED"]
    /\ sq' = [sq EXCEPT !.phases = Append(sq.phases, "MODE_SET"),
                        !.pc = "a57"]
    /\ UNCHANGED <<state, pose, pending, nGoals, cur, node, nSent, qry, fn>>

Arm57Blind ==
    /\ sq.pc = "a57"
    /\ sq' = [sq EXCEPT
                !.phases = IF sq.nArmableReads = 0
                           THEN Append(sq.phases, "AWAIT_ARMABLE")
                           ELSE sq.phases,
                !.modeAtPoll = IF sq.nArmableReads = 0 THEN veh.mode
                               ELSE sq.modeAtPoll,
                !.nArmableReads = sq.nArmableReads + 1,
                !.nArmableFalse = IF veh.armable THEN sq.nArmableFalse
                                  ELSE sq.nArmableFalse + 1,
                !.sawArmable = veh.armable,
                !.pc = "a62"]
    /\ UNCHANGED <<state, pose, pending, nGoals, cur, node, nSent,
                   veh, qry, fn>>

\* line 57: while self.vehicle.is_armable == False (one read per test);
\* at most MaxCount reads answer False
Arm57 ==
    /\ sq.pc = "a57"
    /\ veh.armable \/ sq.nArmableFalse < MaxCount
    /\ sq' = [sq EXCEPT
                !.phases = IF sq.nArmableReads = 0
                           THEN Append(sq.phases, "AWAIT_ARMABLE")
                           ELSE sq.phases,
                !.modeAtPoll = IF sq.nArmableReads = 0 THEN veh.mode
                               ELSE sq.modeAtPoll,
                !.nArmableReads = sq.nArmableReads + 1,
                !.nArmableFalse = IF veh.armable THEN sq.nArmableFalse
                                  ELSE sq.nArmableFalse + 1,
                !.sawArmable = veh.armable,
                !.pc = IF veh.armable THEN "a62" ELSE "a59"]
    /\ UNCHANGED <<state, pose, pending, nGoals, cur, node, nSent,
                   veh, qry, fn>>

Arm59Reread ==
    /\ sq.pc = "a59"
    /\ sq' = [sq EXCEPT !.nArmableReads = sq.nArmableReads + 1,
                        !.pc = "a57"]
    /\ UNCHANGED <<state, pose, pending, nGoals, cur, node, nSent,
                   veh, qry, fn>>

\* lines 58-59: log, time.sleep(5)
Arm59 ==
    /\ sq.pc = "a59"
    /\ sq' = [sq EXCEPT !.pc = "a57"]
    /\ UNCHANGED <<state, pose, pending, nGoals, cur, node, nSent,
                   veh, qry, fn>>

Arm62Release ==
    /\ sq.pc = "a62"
    /\ state' = "OK"
    /\ veh' = [veh EXCEPT !.armCmds = veh.armCmds + 1]
    /\ sq' = [sq EXCEPT !.phases = Append(sq.phases, "AWAIT_ARMED"),
                        !.nArmCmd = Bump(sq.nArmCmd),
                        !.pc = "a63"]
    /\ UNCHANGED <<pose, pending, nGoals, cur, node, nSent, qry, fn>>

\* lines 60-62: self.vehicle.armed = True (the arm command)
Arm62 ==
    /\ sq.pc = "a62"
    /\ veh' = [veh EXCEPT !.armCmds = veh.armCmds + 1]
    /\ sq' = [sq EXCEPT !.phases = Append(sq.phases, "AWAIT_ARMED"),
                        !.nArmCmd = Bump(sq.nArmCmd),
                        !.pc = "a63"]
    /\ UNCHANGED <<state, pose, pending, nGoals, cur, node, nSent, qry, fn>>

\* line 63: while self.vehicle.armed == False (one read per test); at most
\* MaxCount reads answer False
Arm63 ==
    /\ sq.pc = "a63"
    /\ veh.armed \/ sq.nArmedFalse < MaxCount
    /\ sq' = [sq EXCEPT
                !.nArmedReads = sq.nArmedReads + 1,
                !.nArmedFalse = IF veh.armed THEN sq.nArmedFalse
                                ELSE sq.nArmedFalse + 1,
                !.phases = IF veh.armed THEN Append(sq.phases, "ARMED")
                           ELSE sq.phases,
                !.pc = IF veh.armed THEN "a69" ELSE "a65"]
    /\ UNCHANGED <<state, pose, pending, nGoals, cur, node, nSent,
                   veh, qry, fn>>

\* lines 64-65: log, time.sleep(1)
Arm65 ==
    /\ sq.pc = "a65"
    /\ sq' = [sq EXCEPT !.pc = "a63"]
    /\ UNCHANGED <<state, pose, pending, nGoals, cur, node, nSent,
                   veh, qry, fn>>

\* lines 67-69: logs, self.state = "OK", return
Arm69 ==
    /\ sq.pc = "a69"
    /\ state' = "OK"
    /\ sq' = [sq EXCEPT !.returned = TRUE, !.pc = "idle"]
    /\ UNCHANGED <<pose, pending, nGoals, cur, node, nSent, veh, qry, fn>>

Arm == Arm55 \/ Arm56 \/ Arm57 \/ Arm59 \/ Arm62 \/ Arm63 \/ Arm65 \/ Arm69

\* the vehicle's pre-arm checks pass or fail
ArmableFlip ==
    /\ veh' = [veh EXCEPT !.armable = ~veh.armable]
    /\ UNCHANGED <<state, pose, pending, nGoals, cur, node, nSent, sq, qry, fn>>

\* the vehicle, commanded to arm, reports itself armed
ArmedReport ==
    /\ veh.armCmds >= 1 /\ ~veh.armed
    /\ veh' = [veh EXCEPT !.armed = TRUE]
    /\ UNCHANGED <<state, pose, pending, nGoals, cur, node, nSent, sq, qry, fn>>

\* --------------------------------------------------------- takeoff
\* a caller invokes takeoff(altitude) (line 71)
CallTakeoff ==
    /\ sq.pc = "idle" /\ sq.calls < MaxGoals
    /\ \E t \in TargetVals :
          sq' = [NoSeq EXCEPT !.op = "takeoff", !.calls = sq.calls + 1,
                              !.target = t, !.pc = "t72"]
    /\ UNCHANGED <<state, pose, pending, nGoals, cur, node, nSent,
                   veh, qry, fn>>

\* line 72: self.state = "OK"
Tk72 ==
    /\ sq.pc = "t72"
    /\ state' = "OK"
    /\ sq' = [sq EXCEPT !.pc = "t73"]
    /\ UNCHANGED <<pose, pending, nGoals, cur, node, nSent, veh, qry, fn>>

\* line 73: self.vehicle.simple_takeoff(altitude)
Tk73 ==
    /\ sq.pc = "t73"
    /\ veh' = [veh EXCEPT !.climbs = veh.climbs + 1]
    /\ sq' = [sq EXCEPT !.nClimb = Bump(sq.nClimb),
                        !.readsAtClimb = sq.nAltReads,
                        !.pc = "t78"]
    /\ UNCHANGED <<state, pose, pending, nGoals, cur, node, nSent, qry, fn>>

\* line 78: the altitude is read for the log
Tk78 ==
    /\ sq.pc = "t78"
    /\ sq' = [sq EXCEPT !.nAltReads = Bump(sq.nAltReads), !.pc = "t79"]
    /\ UNCHANGED <<state, pose, pending, nGoals, cur, node, nSent,
                   veh, qry, fn>>

Tk79Full ==
    /\ sq.pc = "t79"
    /\ LET alt == GlobalFrame(pose).alt
           r == Reached(alt, sq.target)
       IN  sq' = [sq EXCEPT !.nAltReads = Bump(sq.nAltReads),
                            !.nAltSamples = Bump(sq.nAltSamples),
                            !.nReached = IF r THEN Bump(sq.nReached)
                                         ELSE sq.nReached,
                            !.lastAlt = alt,
                            !.pc = IF 100 * alt >= sq.target THEN "t83"
                                   ELSE "t82"]
    /\ UNCHANGED <<state, pose, pending, nGoals, cur, node, nSent,
                   veh, qry, fn>>

\* lines 79-81: the altitude is read again and tested against
\* altitude * 0.97: the sample that decides
Tk79 ==
    /\ sq.pc = "t79"
    /\ LET alt == GlobalFrame(pose).alt
           r == Reached(alt, sq.target)
       IN  sq' = [sq EXCEPT !.nAltReads = Bump(sq.nAltReads),
                            !.nAltSamples = Bump(sq.nAltSamples),
                            !.nReached = IF r THEN Bump(sq.nReached)
                                         ELSE sq.nReached,
                            !.lastAlt = alt,
                            !.pc = IF r THEN "t83" ELSE "t82"]
    /\ UNCHANGED <<state, pose, pending, nGoals, cur, node, nSent,
                   veh, qry, fn>>

\* line 82: time.sleep(1)
Tk82 ==
    /\ sq.pc = "t82"
    /\ sq' = [sq EXCEPT !.pc = "t78"]
    /\ UNCHANGED <<state, pose, pending, nGoals, cur, node, nSent,
                   veh, qry, fn>>

\* line 83: self.state = "OK", return
Tk83 ==
    /\ sq.pc = "t83"
    /\ state' = "OK"
    /\ sq' = [sq EXCEPT !.returned = TRUE, !.pc = "idle"]
    /\ UNCHANGED <<pose, pending, nGoals, cur, node, nSent, veh, qry, fn>>

Takeoff == Tk72 \/ Tk73 \/ Tk78 \/ Tk79 \/ Tk82 \/ Tk83

\* the helper methods run by a caller of their own, on a connected vehicle
\* whose pre-arm checks may have passed already
ArmInit ==
    /\ state = "OK"
    /\ pose \in Poses
    /\ pending = <<>>
    /\ nGoals = 0
    /\ cur = NoGoal
    /\ node = "spinning"
    /\ nSent = 0
    /\ veh \in {[NoVeh EXCEPT !.armable = b] : b \in BOOLEAN}
    /\ sq = NoSeq
    /\ qry = NoQry
    /\ fn = NoFn

ArmNext ==
    \/ MoveVehicle \/ ArmableFlip \/ ArmedReport
    \/ CallArm \/ Arm \/ CallTakeoff \/ Takeoff

ArmSpec == ArmInit /\ [][ArmNext]_vars

\* ---------------------------------------------------- query services
QueryKinds == {"attitude", "location"}

\* a client calls get_attitude or get_location_relative: the request waits
\* until the executor takes it
SendQuery ==
    /\ qry.wait = "none"
    /\ \E k \in QueryKinds : qry' = [qry EXCEPT !.wait = k]
    /\ UNCHANGED <<state, pose, pending, nGoals, cur, node, nSent, veh, sq, fn>>

\* lines 132-141: the executor, running no other callback, runs
\* get_attitude_callback; temp is one snapshot of the attitude
GetAttitudeCallback ==
    /\ node = "spinning" /\ Idle
    /\ qry.wait = "attitude"
    /\ qry' = [wait |-> "none",
               resp |-> [kind |-> "attitude", a |-> 0, b |-> 0,
                         c |-> veh.yaw]]
    /\ UNCHANGED <<state, pose, pending, nGoals, cur, node, nSent, veh, sq, fn>>

\* the vehicle turns: the link thread stores a new attitude
TurnVehicle ==
    /\ veh' = [veh EXCEPT !.yaw = 1 - veh.yaw]
    /\ UNCHANGED <<state, pose, pending, nGoals, cur, node, nSent, sq, qry,
                   fn>>

\* get_location_relative_callback answering with the origin of the frame
GetLocationRelativeZero ==
    /\ node = "spinning" /\ Idle
    /\ qry.wait = "location"
    /\ qry' = [wait |-> "none",
               resp |-> [kind |-> "location", a |-> 0, b |-> 0, c |-> 0]]
    /\ UNCHANGED <<state, pose, pending, nGoals, cur, node, nSent, veh, sq,
                   fn>>

\* lines 143-152: the executor, running no other callback, runs
\* get_location_relative_callback; temp is one snapshot of the position
GetLocationRelativeCallback ==
    /\ node = "spinning" /\ Idle
    /\ qry.wait = "location"
    /\ qry' = [wait |-> "none",
               resp |-> [kind |-> "location", a |-> pose.north,
                         b |-> pose.east, c |-> pose.down]]
    /\ UNCHANGED <<state, pose, pending, nGoals, cur, node, nSent, veh, sq, fn>>

ServeQuery == GetAttitudeCallback \/ GetLocationRelativeCallback

\* the executor sends the response the callback returned
Reply ==
    /\ node = "spinning"
    /\ qry.resp # NoResp
    /\ qry' = [qry EXCEPT !.resp = NoResp]
    /\ UNCHANGED <<state, pose, pending, nGoals, cur, node, nSent, veh, sq,
                   fn>>

\* one relative goal and the clients of the two query services
ServNext ==
    \/ MoveVehicle \/ TurnVehicle \/ StartGoal \/ GotoRelative
    \/ SendQuery \/ ServeQuery \/ Reply

ServSpec == LiveInit /\ [][ServNext]_vars

\* ------------------------------------------------- helper functions
\* 1.113195e5 metres per degree (lines 126-127), in length units of half
\* a metre
MetersPerDegree == 222639

\* lat*1e7, lon*1e7 (lines 106-107)
LatLonScale == 10000000

\* the type_mask literal of goto_position_target_global_int (line 105)
TypeMaskGlobal == 4088

\* DistRel measuring from the origin of the local frame
DistRelOrigin(location, frame) ==
    Norm2(location.north, location.east, location.down)

\* calculate_remaining_distance_rel(location) with the vehicle at frame
\* for the whole call (lines 119-123), squared
DistRel(location, frame) ==
    Norm2(location.north - frame.north, location.east - frame.east,
          location.down - frame.down)

\* GlobalIntMsg with the velocity fields enabled in place of the positions
GlobalIntMsgSpeeds(location) ==
    [frame |-> "GLOBAL_RELATIVE_ALT_INT", mask |-> 4039,
     x |-> location.lat * LatLonScale, y |-> location.lon * LatLonScale,
     z |-> location.alt]

\* the message goto_position_target_global_int encodes and sends
GlobalIntMsg(location) ==
    [frame |-> "GLOBAL_RELATIVE_ALT_INT", mask |-> TypeMaskGlobal,
     x |-> location.lat * LatLonScale, y |-> location.lon * LatLonScale,
     z |-> location.alt]

\* the destinations goto_global_action builds (lines 191-194)
GlobalDests ==
    {LocationGlobalRelative(GlobalFrame(p).lat + o.x, GlobalFrame(p).lon + o.y,
                            GlobalFrame(p).alt + o.z) :
        p \in Poses, o \in Offsets}

\* the caller applies calculate_remaining_distance_rel to a and b both ways
\* round, and to a and a
EvalDistRel ==
    /\ fn.pc = "idle"
    /\ \E a \in Poses, b \in Poses :
          fn' = [NoFn EXCEPT !.op = "rel", !.a = a, !.b = b,
                             !.ab = DistRel(b, a), !.ba = DistRel(a, b),
                             !.aa = DistRel(a, a)]
    /\ UNCHANGED <<state, pose, pending, nGoals, cur, node, nSent, veh, sq,
                   qry>>

\* the caller calls calculate_remaining_distance_global with a destination
\* of the kind goto_global_action builds
CallDistGlobal ==
    /\ fn.pc = "idle"
    /\ \E l \in GlobalDests :
          fn' = [NoFn EXCEPT !.op = "glob", !.loc = l, !.pc = "d126"]
    /\ UNCHANGED <<state, pose, pending, nGoals, cur, node, nSent, veh, sq,
                   qry>>

\* line 126: dlat = (location.lat - global_relative_frame.lat) * 1.113195e5
DistGlobal126 ==
    /\ fn.pc = "d126"
    /\ fn' = [fn EXCEPT !.dlat = (fn.loc.lat - GlobalFrame(pose).lat)
                                    * MetersPerDegree,
                        !.pc = "d127"]
    /\ UNCHANGED <<state, pose, pending, nGoals, cur, node, nSent, veh, sq,
                   qry>>

\* line 127: dlon = (location.lon - global_relative_frame.lon) * 1.113195e5
DistGlobal127 ==
    /\ fn.pc = "d127"
    /\ fn' = [fn EXCEPT !.dlon = (fn.loc.lon - GlobalFrame(pose).lon)
                                    * MetersPerDegree,
                        !.pc = "d128"]
    /\ UNCHANGED <<state, pose, pending, nGoals, cur, node, nSent, veh, sq,
                   qry>>

\* lines 128-129: ddown = location.down - global_relative_frame.down, then
\* the norm; an object without the attribute down raises AttributeError
DistGlobal128 ==
    /\ fn.pc = "d128"
    /\ fn' = IF /\ "down" \in DOMAIN fn.loc
                /\ "down" \in DOMAIN GlobalFrame(pose)
             THEN [fn EXCEPT !.out = Norm2(fn.dlat, fn.dlon,
                                           fn.loc.down
                                               - GlobalFrame(pose).down),
                             !.dlat = 0, !.dlon = 0, !.pc = "returned"]
             ELSE [fn EXCEPT !.dlat = 0, !.dlon = 0, !.pc = "raised"]
    /\ UNCHANGED <<state, pose, pending, nGoals, cur, node, nSent, veh, sq,
                   qry>>

DistGlobal == DistGlobal126 \/ DistGlobal127 \/ DistGlobal128

\* the caller calls goto_position_target_local_ned
CallLocalNed ==
    /\ fn.pc = "idle"
    /\ \E north \in NorthVals, east \in EastVals, down \in DownVals :
          fn' = [NoFn EXCEPT !.op = "local",
                             !.b = LocationLocal(north, east, down),
                             !.msg = LocalNedMsg(north, east, down,
                                                 pose.down)]
    /\ UNCHANGED <<state, pose, pending, nGoals, cur, node, nSent, veh, sq,
                   qry>>

\* the caller calls goto_position_target_global_int
CallGlobalInt ==
    /\ fn.pc = "idle"
    /\ \E l \in GlobalDests :
          fn' = [NoFn EXCEPT !.op = "global", !.loc = l,
                             !.msg = GlobalIntMsg(l)]
    /\ UNCHANGED <<state, pose, pending, nGoals, cur, node, nSent, veh, sq,
                   qry>>

\* the caller is done with what it got back
Forget ==
    /\ fn.pc \in {"returned", "raised"}
    /\ fn' = [fn EXCEPT !.pc = "idle"]
    /\ UNCHANGED <<state, pose, pending, nGoals, cur, node, nSent, veh, sq,
                   qry>>

FnNext ==
    \/ MoveVehicle \/ EvalDistRel \/ CallDistGlobal \/ DistGlobal
    \/ CallLocalNed \/ CallGlobalInt \/ Forget

FnSpec == Init /\ [][FnNext]_vars

\* ------------------------------------------------------------ startup
\* lines 17-25: Node.__init__, the services and the action servers are
\* created; nothing is served before rclpy.spin
Init17 ==
    /\ node = "i17"
    /\ node' = "i28"
    /\ UNCHANGED <<state, pose, pending, nGoals, cur, nSent, veh, sq, qry,
                   fn>>

\* Init28 creating the flag as "OK"
Init28Ready ==
    /\ node = "i28"
    /\ state' = "OK"
    /\ node' = "i46"
    /\ UNCHANGED <<pose, pending, nGoals, cur, nSent, veh, sq, qry, fn>>

\* line 28: self.state = "BUSY"
Init28 ==
    /\ node = "i28"
    /\ state' = "BUSY"
    /\ node' = "i46"
    /\ UNCHANGED <<pose, pending, nGoals, cur, nSent, veh, sq, qry, fn>>

\* lines 31-46: connect(...) returns the vehicle, or raises when the link
\* cannot be established; the exception leaves __init__ and main
Init46 ==
    /\ node = "i46"
    /\ node' \in {"i47", "failed"}
    /\ UNCHANGED <<state, pose, pending, nGoals, cur, nSent, veh, sq, qry,
                   fn>>

\* lines 47-48: self.state = "OK", log; the constructor returns
Init47 ==
    /\ node = "i47"
    /\ state' = "OK"
    /\ node' = "constructed"
    /\ UNCHANGED <<pose, pending, nGoals, cur, nSent, veh, sq, qry, fn>>

\* line 227: rclpy.spin(drone)
Main227 ==
    /\ node = "constructed"
    /\ node' = "spinning"
    /\ UNCHANGED <<state, pose, pending, nGoals, cur, nSent, veh, sq, qry,
                   fn>>

Startup == Init17 \/ Init28 \/ Init46 \/ Init47 \/ Main227

\* the process has been started: DroneHandler() is entered, the flag does
\* not exist yet; clients may send goals already
StartInit ==
    /\ state = "unset"
    /\ pose \in Poses
    /\ pending = <<>>
    /\ nGoals = 0
    /\ cur = NoGoal
    /\ node = "i17"
    /\ nSent = 0
    /\ veh = NoVeh
    /\ sq = NoSeq
    /\ qry = NoQry
    /\ fn = NoFn

StartNext == Startup \/ Next

StartSpec == StartInit /\ [][StartNext]_vars

\* ------------------------------------------------------------ claims
\* program points of goto_relative_action at which destination exists
RelAfterDest ==
    {"r168", "r170", "r173", "c121", "c122", "r176", "r177", "r179",
     "r181", "r182", "r183"}

\* program points of the polling part (lines 173-179)
RelPolling == {"c121", "c122", "r176", "r177", "r179"}

InRel(pcs) == cur.kind = "rel" /\ cur.pc \in pcs

\* squared distance of the vehicle to the destination of the running action
PoseDist2 ==
    Norm2(cur.north - pose.north, cur.east - pose.east, cur.down - pose.down)

\* a run with one goto action at most, a relative one
SingleRel == nGoals <= 1 /\ cur.kind # "glob"

\* C1: the destination of a GotoRelative is p + offset, component-wise, for
\* a single pose p read when the request is accepted (one of the poses read
\* at lines 159-161).
C1_DestFromOnePose ==
    InRel({"r168"}) =>
        \E i \in 1..Len(cur.seen) :
            /\ cur.north = cur.seen[i].north + cur.req.x
            /\ cur.east = cur.seen[i].east + cur.req.y
            /\ cur.down = cur.seen[i].down + cur.req.z

\* C2: a relative goto action sends its guidance command exactly once, with
\* the flag already BUSY and no distance evaluated yet; polling and
\* finishing send nothing more.
C2_OneCommand ==
    cur.kind = "rel" =>
        /\ cur.nCmd <= 1
        /\ cur.nCmd = 1 => cur.busyAtCmd /\ ~cur.distAtCmd
        /\ cur.nSamples >= 1 => cur.nCmd = 1
        /\ cur.pc \in RelPolling \cup {"r173", "r181", "r182", "r183", "done"}
              => cur.nCmd = 1

C2_Witness ==
    cur.kind = "rel" /\ cur.pc = "done" /\ cur.nCmd = 1 /\ cur.nSamples >= 2

\* C3: a GotoRelative is marked succeeded only after a sample <= 0.5, the
\* polling ends at the first such sample (never at a sample > 0.5), and no
\* sample is computed after it.
C3_FirstNearEnds ==
    cur.kind = "rel" =>
        /\ cur.nNear <= 1
        /\ cur.pc \in {"r181", "r182", "r183"} => ~Far(cur.dist)
        /\ cur.status = "succeeded" => cur.nNear = 1
        /\ cur.nNear = 1 =>
              /\ cur.pc \in {"r176", "r179", "r181", "r182", "r183", "done"}
              /\ cur.pc # "done" => ~Far(cur.dist)

C3_Witness ==
    cur.kind = "rel" /\ cur.status = "succeeded" /\ cur.nSamples >= 2
        /\ cur.nNear = 1

\* C4: in a run with a single relative goto action the flag is BUSY in every
\* state in which the guidance command has been sent and the goal is not yet
\* marked succeeded, and OK in every state before the callback is entered
\* and after it has returned.
C4_BusyInterval ==
    SingleRel =>
        /\ cur.nCmd >= 1 /\ cur.nSucceed = 0 => state = "BUSY"
        /\ cur.pc \in {"idle", "done"} => state = "OK"

C4_Witness ==
    SingleRel /\ cur.kind = "rel" /\ cur.pc = "done" /\ state = "OK"
        /\ cur.nSamples >= 2

\* C5 (as stated): the flag is BUSY in every state between an action's first
\* pose read and its terminal result.
C5_BusyFromAcceptance ==
    cur.pc \notin {"idle", "r159", "g191", "done", "failed"} => state = "BUSY"

\* C5 (amended): the flag is BUSY in every state from the action's own BUSY
\* assignment (line 168 / 200) until it sets the flag back after marking the
\* goal succeeded (line 182), or until the callback is left by the exception.
C5_BusyFromAssignment ==
    cur.pc \in (RelAfterDest \ {"r168", "r183"}) \cup {"g202"}
        => state = "BUSY"

C5_Witness ==
    nGoals = 2 /\ cur.kind = "rel" /\ cur.pc = "r179" /\ state = "BUSY"
        /\ pending = <<>>

C7_AlwaysSucceeds ==
    /\ cur.pc # "failed"
    /\ cur.status # "aborted"
    /\ cur.pc = "done" =>
          /\ cur.status = "succeeded" /\ cur.result = 1
          /\ cur.nSucceed = 1 /\ cur.nReturn = 1

\* C8: a GotoRelative that succeeds has emitted to its client one progress
\* value per distance sample.
C8_FeedbackPerSample ==
    cur.kind = "rel" /\ cur.status = "succeeded"
        => cur.nFeedback = cur.nSamples

\* the vehicle is within 0.5 of the destination of the running action
NearDest == InRel(RelAfterDest) /\ ~Far(PoseDist2)

\* the action has returned result 1 with the goal succeeded and the flag OK
Returned1 ==
    cur.pc = "done" /\ cur.status = "succeeded" /\ state = "OK"
        /\ cur.result = 1

\* C9: if the pose is eventually within 0.5 of the destination and stays
\* there, the accepted action eventually succeeds, the flag is OK again and
\* the result 1 is returned.
C9_EventuallySucceeds == <>[]NearDest => <>Returned1

\* C10: no timeout, iteration bound or cancellation: while every distance
\* sample so far is > 0.5 the action is in its polling part with its next
\* step enabled, has no terminal result, and in a single-action run the flag
\* is BUSY.
C10_PollsWhileFar ==
    cur.kind = "rel" /\ cur.nSamples >= 1 /\ cur.nNear = 0 =>
        /\ cur.pc \in RelPolling
        /\ cur.status = "executing" /\ cur.nReturn = 0
        /\ ENABLED GotoRelative
        /\ SingleRel => state = "BUSY"

C10_Witness ==
    SingleRel /\ cur.kind = "rel" /\ cur.nSamples = MaxCount /\ cur.nNear = 0
        /\ cur.nSleep = MaxCount /\ cur.pc = "r176"
\* ----------------------------------------------------- arm, takeoff
PhaseOrder ==
    <<"UNARMED", "MODE_SET", "AWAIT_ARMABLE", "AWAIT_ARMED", "ARMED">>

AtArmed == sq.op = "arm" /\ Last(sq.phases) = "ARMED"

\* C11: when the arm sequence reaches ARMED after the armable predicate
\* was read false k times and the armed readback false m times, the armable
\* predicate has been read exactly k+1 times and the armed readback exactly
\* m+1 times.
C11_ReadCounts ==
    AtArmed =>
        /\ sq.nArmableReads = sq.nArmableFalse + 1
        /\ sq.nArmedReads = sq.nArmedFalse + 1

\* ARMED reached with k = 2 and m = 1: 3 and 2 reads
C11_Witness ==
    /\ AtArmed
    /\ sq.nArmableFalse = 2 /\ sq.nArmableReads = 3
    /\ sq.nArmedFalse = 1 /\ sq.nArmedReads = 2

\* C12: the arm sequence goes through UNARMED, MODE_SET, AWAIT_ARMABLE,
\* AWAIT_ARMED, ARMED in this order, none skipped or revisited; GUIDED is
\* commanded before the first armable poll; the arm command is issued once
\* and only after the armable predicate was read true; while every read of
\* the predicate was false no arm command is sent and ARMED is not reached.
C12_PhaseOrder ==
    sq.op = "arm" =>
        /\ \E n \in 1..Len(PhaseOrder) : sq.phases = SubSeq(PhaseOrder, 1, n)
        /\ sq.nArmableReads >= 1 => sq.modeAtPoll = "GUIDED"
        /\ sq.nArmCmd = IF Len(sq.phases) >= 4 THEN 1 ELSE 0
        /\ sq.nArmCmd >= 1 => sq.sawArmable
        /\ sq.nArmableReads = sq.nArmableFalse =>
              sq.nArmCmd = 0 /\ ~AtArmed

\* the sequence returned after the vehicle refused to arm at first
C12_Witness ==
    /\ AtArmed /\ sq.returned
    /\ sq.phases = PhaseOrder
    /\ sq.nArmableFalse >= 1
    /\ sq.nArmCmd = 1

\* C13: in the arm sequence the flag is BUSY from its first statement until
\* the armed readback has been read true, and it is OK again only once
\* ARMED is reached, when the sequence returns.
C13_BusyUntilArmed ==
    (sq.op = "arm" /\ sq.pc # "a55") =>
        /\ state = "BUSY" <=> sq.pc # "idle"
        /\ ~AtArmed => state = "BUSY"
        /\ sq.pc = "idle" => AtArmed /\ sq.returned

\* the arm command is out, the readback still false, the flag BUSY
C13_Witness ==
    /\ sq.op = "arm" /\ sq.pc = "a65" /\ state = "BUSY"
    /\ sq.nArmedFalse >= 1

InTakeoff(pcs) == sq.op = "takeoff" /\ sq.pc \in pcs

\* C14: takeoff sends exactly one climb command, before any read of the
\* altitude, and returns at the first tested altitude sample that is
\* >= 0.97 x target: while no sample has reached it the loop goes on.
C14_ReturnsAtThreshold ==
    sq.op = "takeoff" =>
        /\ sq.nClimb = IF sq.pc \in {"t72", "t73"} THEN 0 ELSE 1
        /\ sq.readsAtClimb = 0
        /\ sq.pc \in {"t72", "t73"} => sq.nAltReads = 0
        /\ sq.pc \in {"t78", "t79", "t82"} => sq.nReached = 0
        /\ sq.pc = "t82" => ~Reached(sq.lastAlt, sq.target)
        /\ sq.pc \in {"t83", "idle"} =>
              sq.nReached = 1 /\ Reached(sq.lastAlt, sq.target)
        /\ sq.returned <=> sq.pc = "idle"

\* takeoff returned on a sample below the target but within 3% of it, after
\* a sample that was too low
C14_Witness ==
    /\ sq.op = "takeoff" /\ sq.returned
    /\ sq.nAltSamples >= 2
    /\ 100 * sq.lastAlt < sq.target

\* C15: during takeoff the flag is BUSY between the climb command and the
\* sample that ends the polling.
C15_BusyDuringTakeoff ==
    InTakeoff({"t78", "t79", "t82"}) => state = "BUSY"

\* ------------------------------------------------------ goto, services
\* C16: a goto action sends its guidance command only in a run where the
\* arm sequence has reached ARMED before.
C16_ArmedBeforeGoto == nSent >= 1 => AtArmed /\ veh.armCmds >= 1

\* C17: a query that arrives while the relative action sleeps between two
\* samples (line 179) can be served then, without waiting for the action to
\* end.
C17_ServedWhilePolling ==
    (InRel({"r179"}) /\ qry.wait # "none") => ENABLED ServeQuery

\* C18: the global goto action, once past line 202, has handed the link one
\* LOCAL_NED message.
C18_GlobalSendsLocalNed ==
    (cur.kind = "glob" /\ cur.pc = "failed") => cur.nCmd = 1 /\ nSent >= 1

\* C19: the message sent by goto_position_target_local_ned carries the
\* north, east and down it was passed and the LOCAL_NED frame, for every
\* destination and every pose of the vehicle.
C19_RoundTrip ==
    (cur.kind = "rel" /\ cur.cmd # NoMsg) =>
        /\ cur.cmd.frame = "LOCAL_NED"
        /\ cur.cmd.x = cur.north
        /\ cur.cmd.y = cur.east
        /\ cur.cmd.z = cur.down

\* C20: the global goto action takes an initial sample of the global
\* distance to its destination before it ends.
C20_GlobalSamples ==
    (cur.kind = "glob" /\ cur.pc = "failed") => cur.nSamples >= 1

\* C23: in the polling loop of the relative action the sleep of line 179
\* happens only after a sample > 0.5: no sleep follows a sample <= 0.5.
C23_SleepOnlyWhenFar == cur.kind = "rel" => ~cur.sleptAfterNear

\* C27: a relative action whose first sample (line 173) is <= 0.5 sets the
\* flag to BUSY, sends exactly one command, takes exactly one sample and
\* never sleeps, then marks the goal succeeded, sets the flag to OK and
\* returns result 1.
C27_NearAtOnce ==
    (cur.kind = "rel" /\ cur.firstNear) =>
        /\ cur.nCmd = 1 /\ cur.busyAtCmd
        /\ cur.nSamples = 1 /\ cur.nSleep = 0
        /\ cur.pc \in {"r176", "r181", "r182", "r183", "done"}
        /\ cur.pc \in {"r176", "r181", "r182"} => state = "BUSY"
        /\ cur.pc \in {"r182", "r183", "done"} =>
              cur.status = "succeeded" /\ cur.nSucceed = 1
        /\ cur.pc \in {"r183", "done"} => state = "OK"
        /\ cur.pc = "done" => cur.result = 1 /\ cur.nReturn = 1

\* such an action has returned
C27_Witness ==
    /\ cur.kind = "rel" /\ cur.firstNear /\ cur.pc = "done"
    /\ cur.nSamples = 1 /\ cur.result = 1

\* ------------------------------------------------- helper functions
\* C21: the global distance is defined for every destination the global
\* goto action builds: the call returns, with the norm of the latitude
\* delta x 111319.5, the longitude delta x 111319.5 and the altitude delta.
C21_GlobalDistanceDefined ==
    (fn.op = "glob" /\ fn.pc \in {"returned", "raised"}) =>
        /\ fn.pc = "returned"
        /\ \E p \in Poses :
              fn.out = Norm2((fn.loc.lat - GlobalFrame(p).lat)
                                 * MetersPerDegree,
                             (fn.loc.lon - GlobalFrame(p).lon)
                                 * MetersPerDegree,
                             fn.loc.alt - GlobalFrame(p).alt)

\* C22: the local distance with the vehicle at a and the destination b
\* equals the one with the vehicle at b and the destination a, and it is 0
\* with the vehicle at its destination.
C22_Symmetric == fn.op = "rel" => fn.ab = fn.ba /\ fn.aa = 0

\* two different poses, at a distance > 0 both ways
C22_Witness == fn.op = "rel" /\ fn.a # fn.b /\ fn.ab > 0 /\ fn.ba > 0

\* bit i of a type mask: 1 means the field is ignored
Bit(m, i) == (m \div 2 ^ i) % 2

\* the positions (bits 0-2) are used; the velocities (3-5), the
\* accelerations (6-8), the yaw (10) and the yaw rate (11) are ignored
PositionOnly(m) ==
    /\ \A i \in 0..2 : Bit(m, i) = 0
    /\ \A i \in (3..8) \cup {10, 11} : Bit(m, i) = 1

FreshResp ==
    IF qry.wait = "location"
    THEN [kind |-> "location", a |-> pose.north, b |-> pose.east,
          c |-> pose.down]
    ELSE [kind |-> "attitude", a |-> 0, b |-> 0, c |-> veh.yaw]

Served == qry.wait # "none" /\ qry'.wait = "none"

\* C26: a step that serves a GetAttitude or GetLocationRelative call leaves
\* the flag, the running action with its destination, the goals waiting and
\* the commands sent as they are, and answers the pose or the attitude the
\* link holds at the time of the call.
C26_ReadOnly ==
    [][Served => /\ UNCHANGED <<state, cur, pending, nGoals, nSent, node>>
                 /\ UNCHANGED <<pose, veh>>
                 /\ qry'.resp = FreshResp]_vars

\* a position away from the origin was answered after an action had sent
\* its command and returned
C26_Witness ==
    /\ qry.resp.kind = "location" /\ qry.resp.a # 0
    /\ cur.kind = "rel" /\ cur.pc = "done" /\ nSent = 1
    /\ state = "OK"

\* ------------------------------------------------------------ startup
\* the program points of main before rclpy.spin, the failed start excluded
BeforeSpin == {"i17", "i28", "i46", "i47", "constructed"}

\* C25: at startup the flag is never OK before connect has returned: it is
\* created BUSY (line 28) and stays BUSY while connect runs; no request is
\* served before the node spins; when connect fails the flag stays BUSY and
\* the node never serves a request.
C25_BusyUntilConnected ==
    /\ node \in {"i17", "i28"} => state = "unset"
    /\ node \in {"i46", "i47", "failed"} => state = "BUSY"
    /\ node = "constructed" => state = "OK"
    /\ node \in BeforeSpin \cup {"failed"} =>
          cur = NoGoal /\ nSent = 0 /\ ~ENABLED StartGoal
    /\ node = "failed" => ~ENABLED Startup

\* the connection failed with a goal waiting, which is never served
C25_Witness ==
    /\ node = "failed" /\ state = "BUSY"
    /\ pending # <<>>

====
